---------------------------- MODULE Spec2Model ----------------------------
(***************************************************************************)
(* Model of src/src/main.rs: an actix-web service whose five handlers      *)
(* share one Mutex<HashMap<Uuid, Movie>>.                                   *)
(*                                                                         *)
(* A handler invocation is a worker w that goes through                    *)
(*   "idle" -Call-> "lock" -lock_unwrap-> "body" -handler body-> "ret"     *)
(*          -Return-> "idle"                                               *)
(* "lock" is the handler blocked in data.lock(); the MutexGuard lives      *)
(* until the handler function returns, so the response is built while the  *)
(* lock is still held and the lock is released by Return.                  *)
(*                                                                         *)
(* Uuid values are opaque to the program (hashed and compared, nothing     *)
(* else), so a value drawn by Uuid::new_v4() is named by the order in      *)
(* which it was drawn: the k-th draw is k.  Draws never repeat (the        *)
(* version-4 contract; the code itself does no collision check).  Clients  *)
(* may send any name in 0..MaxUuid, 0 being the nil Uuid that new_v4       *)
(* never returns, and a name above uuids being a value not drawn yet.      *)
(***************************************************************************)
EXTENDS Integers, Sequences, FiniteSets, Bags, TLC

\* ------------------------------------------------------------- bounds
\* Number of distinct values Uuid::new_v4() can hand out before the model
\* stops creating (4 of them go to the seed data).
MaxUuid == 6
\* Number of requests dispatched in one run.
MaxOps == 3

\* ------------------------------------------------------------- types
Workers == {"w1", "w2"}
NoWorker == "none"

\* Uuid::nil(), which new_v4 never returns.
NilUuid == 0

\* A draw that repeats an earlier value.
NewV4_repeat(n) == IF n > 4 THEN n ELSE n + 1

\* Uuid::new_v4() after n earlier draws.
NewV4(n) == n + 1

Director(f, l) == [firstname |-> f, lastname |-> l]

Movie(i, s, t, d) == [id |-> i, isbn |-> s, title |-> t, director |-> d]

\* Request bodies a client sends: the isbn/title/director part.
Bodies ==
    { [isbn |-> "111", title |-> "A",  director |-> Director("B", "C")],
      [isbn |-> "222", title |-> "A2", director |-> Director("D", "E")] }

\* Ids a client puts in a path: the nil Uuid (never a key), the first seed's
\* map key, the first seed's id field (shown by get_movies, but not a key),
\* and the id of the first record create_movie makes.
PathIds == {NilUuid, NewV4(0), NewV4(1), NewV4(4)}

\* Ids a client puts in a JSON payload: the first seed's key and its id field.
PayloadIds == {NewV4(0), NewV4(1)}

\* web::Json<Movie>: a full Movie shape, id included.
Payloads == { Movie(i, b.isbn, b.title, b.director) : i \in PayloadIds, b \in Bodies }

NoPayload == [id |-> NilUuid, isbn |-> "", title |-> "", director |-> Director("", "")]

Ops == {"get_movies", "get_movie_by_id", "create_movie",
        "update_movie_by_id", "delete_movie_by_id"}

NoReq == [op |-> "none", id |-> NilUuid, movie |-> NoPayload]
NoResp == [status |-> 0, body |-> <<>>]

\* HttpResponse::X().finish(): a status and an empty body.
Finish(status) == [status |-> status, body |-> <<>>]
\* HttpResponse::X().json(v)
Json(status, v) == [status |-> status, body |-> v]

VARIABLES
    movies,     \* the HashMap<Uuid, Movie> inside the Mutex
    lock,       \* the worker holding the MutexGuard, or NoWorker
    uuids,      \* how many values Uuid::new_v4() has returned
    pc,         \* each worker's position in its handler
    req,        \* each worker's request: handler, path id, JSON payload
    resp,       \* each worker's response, once built
    expected,   \* history: the map a sequential store would hold
    created,    \* history: the records returned by create_movie, in order
    nDeleted,   \* history: number of 204 deletes
    asCreated,  \* history: id -> payload of its create, while the record
                \* has not been updated or deleted since
    deleted,    \* history: keys removed by a 204 delete
    overlap,    \* history: what ran beside each invocation in flight
    nOps,       \* number of requests dispatched
    poisoned    \* the Mutex's poison flag: a holder panicked

vars == <<movies, lock, uuids, pc, req, resp,
          expected, created, nDeleted, asCreated, deleted, overlap, nOps,
          poisoned>>

hist == <<expected, created, nDeleted, asCreated, deleted>>

\* ------------------------------------------------------------- helpers
\* An insert that is left out.
Insert_skip(m, k, v) == m

\* HashMap::insert
Insert(m, k, v) == [x \in DOMAIN m \cup {k} |-> IF x = k THEN v ELSE m[x]]

\* A remove that reports the entry and leaves it in the map.
Remove_keep(m, k) == m

\* HashMap::remove (the map part)
Remove(m, k) == [x \in DOMAIN m \ {k} |-> m[x]]

\* HashMap::values().collect(): the records, order left open.
Values(m) ==
    LET recs == { m[k] : k \in DOMAIN m }
    IN  [r \in recs |-> Cardinality({ k \in DOMAIN m : m[k] = r })]

Fields(m) == [isbn |-> m.isbn, title |-> m.title, director |-> m.director]

\* ------------------------------------------------------------- main
Seed1 == [isbn |-> "978-3-16-148410-0", title |-> "The Lord of the Rings",
          director |-> Director("Peter", "Jackson")]
Seed2 == [isbn |-> "978-0-06-055812-8",
          title |-> "The Hitchhiker's Guide to the Galaxy",
          director |-> Director("Garth", "Jennings")]

\* main(): each insert draws the map key first, then the record's own id.
SeedMovies ==
    LET k1 == NewV4(0)
        i1 == NewV4(1)
        k2 == NewV4(2)
        i2 == NewV4(3)
    IN  Insert(Insert(<<>>, k1, Movie(i1, Seed1.isbn, Seed1.title, Seed1.director)),
               k2, Movie(i2, Seed2.isbn, Seed2.title, Seed2.director))

Init ==
    /\ movies = SeedMovies
    /\ lock = NoWorker
    /\ uuids = 2 * Cardinality(DOMAIN SeedMovies)
    /\ pc = [w \in Workers |-> "idle"]
    /\ req = [w \in Workers |-> NoReq]
    /\ resp = [w \in Workers |-> NoResp]
    /\ expected = SeedMovies
    /\ created = <<>>
    /\ nDeleted = 0
    /\ asCreated = <<>>
    /\ deleted = {}
    /\ overlap = [w \in Workers |-> {}]
    /\ nOps = 0
    /\ poisoned = FALSE

\* ------------------------------------------------------------- dispatch
\* Creates dispatched and not yet served: each will draw one Uuid.
PendingCreates ==
    Cardinality({ w \in Workers : req[w].op = "create_movie" /\ pc[w] \in {"lock", "body"} })

\* The decoded requests: the handler, with its path id if its route has one
\* and its JSON payload if it takes one.
RequestsOf(ids, payloads) ==
    { [op |-> op,
       id |-> IF op \in {"get_movies", "create_movie"} THEN NilUuid ELSE i,
       movie |-> IF op \in {"create_movie", "update_movie_by_id"} THEN p ELSE NoPayload] :
      op \in Ops, i \in ids, p \in payloads }

Requests == RequestsOf(PathIds, Payloads)

\* HttpServer routes a decoded request, one of rs, to its handler on worker w.
Dispatch(w, rs) ==
    /\ pc[w] = "idle"
    /\ nOps < MaxOps
    /\ \E r \in rs :
          /\ r.op = "create_movie" => uuids + PendingCreates < MaxUuid
          /\ req' = [req EXCEPT ![w] = r]
    /\ pc' = [pc EXCEPT ![w] = "lock"]
    /\ nOps' = nOps + 1
    /\ overlap' = [v \in Workers |->
          LET other == CHOOSE u \in Workers : u # v
              creates == /\ req'[v].op = "create_movie"
                         /\ req'[other].op = "create_movie"
              partial == v = w /\ pc[other] \in {"title", "director"}
          IN  overlap[v] \cup (IF creates THEN {"create"} ELSE {})
                         \cup (IF partial THEN {"partial"} ELSE {})]
    /\ UNCHANGED <<movies, lock, uuids, resp, hist, poisoned>>

Call(w) == Dispatch(w, Requests)

\* A lock that readers share, as a reader/writer lock would.
CanLock_sharedRead(w) ==
    lock = NoWorker \/ req[w].op \in {"get_movies", "get_movie_by_id"}

\* A lock that never makes its caller wait.
CanLock_always(w) == TRUE

\* Mutex::lock succeeds when nobody holds the guard.
CanLock(w) == lock = NoWorker

\* data.lock().unwrap(), the lock not poisoned: Ok(guard).
lock_unwrap(w) ==
    /\ pc[w] = "lock"
    /\ CanLock(w)
    /\ ~poisoned
    /\ lock' = w
    /\ pc' = [pc EXCEPT ![w] = "body"]
    /\ UNCHANGED <<movies, uuids, req, resp, hist, overlap, nOps, poisoned>>

\* A guard that is never dropped.
Unlock_leak(l, w) == l

\* Drop of the MutexGuard held by w.
Unlock(l, w) == IF l = w THEN NoWorker ELSE l

\* A return that keeps the lock on the NotFound path.
Return_leakOn404(w) ==
    /\ pc[w] = "ret"
    /\ lock' = IF resp[w].status = 404 THEN lock ELSE Unlock(lock, w)
    /\ pc' = [pc EXCEPT ![w] = "idle"]
    /\ req' = [req EXCEPT ![w] = NoReq]
    /\ resp' = [resp EXCEPT ![w] = NoResp]
    /\ overlap' = [overlap EXCEPT ![w] = {}]
    /\ UNCHANGED <<movies, uuids, hist, nOps, poisoned>>

\* The handler function returns: the guard is dropped and the response sent.
Return(w) ==
    /\ pc[w] = "ret"
    /\ lock' = Unlock(lock, w)
    /\ pc' = [pc EXCEPT ![w] = "idle"]
    /\ req' = [req EXCEPT ![w] = NoReq]
    /\ resp' = [resp EXCEPT ![w] = NoResp]
    /\ overlap' = [overlap EXCEPT ![w] = {}]
    /\ UNCHANGED <<movies, uuids, hist, nOps, poisoned>>

\* ------------------------------------------------------------- handlers
\* get_movies, after the lock: 200 with every value of the map.
get_movies(w) ==
    /\ pc[w] = "body"
    /\ req[w].op = "get_movies"
    /\ resp' = [resp EXCEPT ![w] = Json(200, Values(movies))]
    /\ pc' = [pc EXCEPT ![w] = "ret"]
    /\ UNCHANGED <<movies, lock, uuids, req, hist, overlap, nOps, poisoned>>

\* A lookup by the record's id field in place of the map key.
GetResponse_byIdField(m, id) ==
    IF \E k \in DOMAIN m : m[k].id = id
    THEN Json(200, m[CHOOSE k \in DOMAIN m : m[k].id = id])
    ELSE Finish(404)

\* movies.get(&id): 200 with the record, or 404.
GetResponse(m, id) ==
    IF id \in DOMAIN m THEN Json(200, m[id]) ELSE Finish(404)

get_movie_by_id(w) ==
    /\ pc[w] = "body"
    /\ req[w].op = "get_movie_by_id"
    /\ resp' = [resp EXCEPT ![w] = GetResponse(movies, req[w].id)]
    /\ pc' = [pc EXCEPT ![w] = "ret"]
    /\ UNCHANGED <<movies, lock, uuids, req, hist, overlap, nOps, poisoned>>

\* The id taken from the request body.
CreateId_fromPayload(generated, payload) == payload.id

\* The id create_movie gives the new record: the generated one, whatever
\* id the payload carries.
CreateId(generated, payload) == generated

\* A record stored with the id of the request body.
NewMovie_payloadId(id, payload) ==
    Movie(payload.id, payload.isbn, payload.title, payload.director)

\* A record built with the isbn copied into the title.
NewMovie_isbnAsTitle(id, payload) == Movie(id, payload.isbn, payload.isbn, payload.director)

\* Movie { id, isbn: movie.isbn.clone(), title: ..., director: ... }
NewMovie(id, payload) == Movie(id, payload.isbn, payload.title, payload.director)

create_movie(w) ==
    /\ pc[w] = "body"
    /\ req[w].op = "create_movie"
    /\ uuids < MaxUuid
    /\ LET id == CreateId(NewV4(uuids), req[w].movie)
           movie == NewMovie(id, req[w].movie)
           stored == Insert(movies, id, movie)
       IN  /\ movies' = stored
           /\ resp' = [resp EXCEPT ![w] =
                         IF id \in DOMAIN stored THEN Json(201, stored[id])
                                                 ELSE Json(201, movie)]
           /\ expected' = (id :> Movie(id, req[w].movie.isbn, req[w].movie.title,
                                       req[w].movie.director)) @@ expected
           /\ created' = Append(created, resp'[w].body)
           /\ asCreated' = (resp'[w].body.id :> req[w].movie) @@ asCreated
    /\ uuids' = uuids + 1
    /\ pc' = [pc EXCEPT ![w] = "ret"]
    /\ UNCHANGED <<lock, req, nDeleted, deleted, overlap, nOps, poisoned>>

\* An update that stores the payload under an id it did not find.
update_upsert(w) ==
    /\ pc[w] = "body"
    /\ req[w].op = "update_movie_by_id"
    /\ req[w].id \notin DOMAIN movies
    /\ movies' = Insert(movies, req[w].id, NewMovie(req[w].id, req[w].movie))
    /\ resp' = [resp EXCEPT ![w] = Finish(404)]
    /\ pc' = [pc EXCEPT ![w] = "ret"]
    /\ UNCHANGED <<lock, uuids, req, hist, overlap, nOps, poisoned>>

\* movies.get_mut(&id): None, 404.
update_not_found(w) ==
    /\ pc[w] = "body"
    /\ req[w].op = "update_movie_by_id"
    /\ req[w].id \notin DOMAIN movies
    /\ resp' = [resp EXCEPT ![w] = Finish(404)]
    /\ pc' = [pc EXCEPT ![w] = "ret"]
    /\ UNCHANGED <<movies, lock, uuids, req, hist, overlap, nOps, poisoned>>

\* An isbn write that lands on every record of the map.
SetIsbn_all(m, id, payload) == [k \in DOMAIN m |-> [m[k] EXCEPT !.isbn = payload.isbn]]

SetIsbn(m, id, payload) == [m EXCEPT ![id].isbn = payload.isbn]

\* A title write that is left out.
SetTitle_skip(m, id, payload) == m

SetTitle(m, id, payload) == [m EXCEPT ![id].title = payload.title]

\* A director write that copies the payload's id along.
SetDirector_andId(m, id, payload) ==
    [m EXCEPT ![id].director = payload.director, ![id].id = payload.id]

SetDirector(m, id, payload) == [m EXCEPT ![id].director = payload.director]

\* m.isbn = movie.isbn.clone()
update_isbn(w) ==
    /\ pc[w] = "body"
    /\ req[w].op = "update_movie_by_id"
    /\ req[w].id \in DOMAIN movies
    /\ movies' = SetIsbn(movies, req[w].id, req[w].movie)
    /\ pc' = [pc EXCEPT ![w] = "title"]
    /\ overlap' = [v \in Workers |->
          IF pc[v] = "lock" THEN overlap[v] \cup {"partial"} ELSE overlap[v]]
    /\ asCreated' = [k \in DOMAIN asCreated \ {req[w].id} |-> asCreated[k]]
    /\ UNCHANGED <<lock, uuids, req, resp, expected, created, nDeleted, deleted, nOps, poisoned>>

\* m.title = movie.title.clone()
update_title(w) ==
    /\ pc[w] = "title"
    /\ movies' = SetTitle(movies, req[w].id, req[w].movie)
    /\ pc' = [pc EXCEPT ![w] = "director"]
    /\ UNCHANGED <<lock, uuids, req, resp, hist, overlap, nOps, poisoned>>

\* m.director = movie.director.clone(); HttpResponse::Ok().json(m)
update_director(w) ==
    /\ pc[w] = "director"
    /\ movies' = SetDirector(movies, req[w].id, req[w].movie)
    /\ resp' = [resp EXCEPT ![w] = Json(200, movies'[req[w].id])]
    /\ pc' = [pc EXCEPT ![w] = "ret"]
    /\ expected' = [expected EXCEPT ![req[w].id] =
                       Movie(@.id, req[w].movie.isbn, req[w].movie.title,
                             req[w].movie.director)]
    /\ UNCHANGED <<lock, uuids, req, created, nDeleted, asCreated, deleted, overlap, nOps, poisoned>>

update_movie_by_id(w) ==
    \/ update_not_found(w)
    \/ update_isbn(w)
    \/ update_title(w)
    \/ update_director(w)

\* movies.remove(&id): Some(_) 204, None 404.
delete_movie_by_id(w) ==
    /\ pc[w] = "body"
    /\ req[w].op = "delete_movie_by_id"
    /\ LET id == req[w].id
           found == id \in DOMAIN movies
       IN  /\ movies' = Remove(movies, id)
           /\ resp' = [resp EXCEPT ![w] = IF found THEN Finish(204) ELSE Finish(404)]
           /\ IF found
              THEN /\ expected' = [k \in DOMAIN expected \ {id} |-> expected[k]]
                   /\ nDeleted' = nDeleted + 1
                   /\ asCreated' = [k \in DOMAIN asCreated \ {id} |-> asCreated[k]]
                   /\ deleted' = deleted \cup {id}
              ELSE UNCHANGED <<expected, nDeleted, asCreated, deleted>>
    /\ pc' = [pc EXCEPT ![w] = "ret"]
    /\ UNCHANGED <<lock, uuids, req, created, overlap, nOps, poisoned>>

Next ==
    \E w \in Workers :
        \/ Call(w)
        \/ lock_unwrap(w)
        \/ get_movies(w)
        \/ get_movie_by_id(w)
        \/ create_movie(w)
        \/ update_movie_by_id(w)
        \/ delete_movie_by_id(w)
        \/ Return(w)

Spec == Init /\ [][Next]_vars

\* A handler's own steps once it holds the lock: none of them waits (no .await
\* and no I/O under the guard), so a running worker takes them.
Serve(w) ==
    \/ get_movies(w)
    \/ get_movie_by_id(w)
    \/ create_movie(w)
    \/ update_movie_by_id(w)
    \/ delete_movie_by_id(w)
    \/ Return(w)

\* For the progress properties, which do not depend on what the requests
\* carry: the five handlers on the first seed's key and on the first created
\* id, with one payload for create and update.
FewRequests ==
    RequestsOf({NewV4(0), NewV4(4)},
               { p \in Payloads : p.id = NewV4(1) /\ p.isbn = "111" })

CallFew(w) == Dispatch(w, FewRequests)

NextFew ==
    \E w \in Workers :
        \/ CallFew(w)
        \/ lock_unwrap(w)
        \/ get_movies(w)
        \/ get_movie_by_id(w)
        \/ create_movie(w)
        \/ update_movie_by_id(w)
        \/ delete_movie_by_id(w)
        \/ Return(w)

\* Fair scheduling: a worker that can run does run, and a worker blocked in
\* data.lock() gets the mutex if it is free again and again.
FairSpec ==
    /\ Init
    /\ [][NextFew]_vars
    /\ \A w \in Workers : WF_vars(Serve(w)) /\ SF_vars(lock_unwrap(w))

\* A panic of create_movie while it holds the guard (HashMap::insert panics
\* on capacity overflow, Option::unwrap on None): unwinding drops the guard,
\* which poisons the Mutex; the map is as it was and the invocation ends
\* without a response.
create_movie_panics(w) ==
    /\ pc[w] = "body"
    /\ req[w].op = "create_movie"
    /\ poisoned' = TRUE
    /\ lock' = Unlock(lock, w)
    /\ pc' = [pc EXCEPT ![w] = "panicked"]
    /\ UNCHANGED <<movies, uuids, req, resp, hist, overlap, nOps>>

\* data.lock().unwrap(), the lock free and poisoned: lock() is
\* Err(PoisonError), unwrap panics, and the guard inside the error is dropped
\* by the unwinding.  The invocation ends without a response.
lock_unwrap_poisoned(w) ==
    /\ pc[w] = "lock"
    /\ CanLock(w)
    /\ poisoned
    /\ pc' = [pc EXCEPT ![w] = "panicked"]
    /\ UNCHANGED <<movies, lock, uuids, req, resp, hist, overlap, nOps, poisoned>>

FaultNext ==
    \E w \in Workers :
        \/ CallFew(w)
        \/ lock_unwrap(w)
        \/ lock_unwrap_poisoned(w)
        \/ get_movies(w)
        \/ get_movie_by_id(w)
        \/ create_movie(w)
        \/ create_movie_panics(w)
        \/ update_movie_by_id(w)
        \/ delete_movie_by_id(w)
        \/ Return(w)

\* The service with a handler that may panic under the guard.
FaultSpec == Init /\ [][FaultNext]_vars

\* ------------------------------------------------------------- claims
ListDone(w) == pc[w] = "ret" /\ req[w].op = "get_movies"

\* Number of records in a get_movies response body.
ListLen(w) == BagCardinality(resp[w].body)

\* C1 as stated: after N creates and M deletes get_movies returns exactly
\* N - M records.
C1_ListCountAsStated ==
    \A w \in Workers : ListDone(w) => ListLen(w) = Len(created) - nDeleted

\* C1, amended: after N creates and M 204 deletes get_movies returns 200 with
\* exactly 2 + N - M records (the two seed records of main count until they
\* are deleted), and the records are those of the sequential history: each
\* carries its id and the isbn/title/director of the last create or update
\* applied to it (a seed never updated carries its seed values).
C1_ListMatchesHistory ==
    \A w \in Workers : ListDone(w) =>
        /\ resp[w].status = 200
        /\ ListLen(w) = Cardinality(DOMAIN SeedMovies) + Len(created) - nDeleted
        /\ \A r \in DOMAIN resp[w].body : \E k \in DOMAIN expected : expected[k] = r
        /\ \A k \in DOMAIN expected : expected[k] \in DOMAIN resp[w].body

\* C1 witness: a list served after a create and a delete, with a record left
\* that a create or an update wrote.
C1_Witness ==
    \E w \in Workers :
        /\ ListDone(w)
        /\ Len(created) > 0
        /\ nDeleted > 0
        /\ \E r \in DOMAIN resp[w].body : Fields(r) \in Bodies

CreateDone(w) == pc[w] = "ret" /\ req[w].op = "create_movie"
GetDone(w) == pc[w] = "ret" /\ req[w].op = "get_movie_by_id"
UpdateDone(w) == pc[w] = "ret" /\ req[w].op = "update_movie_by_id"
DeleteDone(w) == pc[w] = "ret" /\ req[w].op = "delete_movie_by_id"

\* C2: a create answers 201 with the stored record, whose id is the generated
\* one and whose isbn, title and director are the payload's; and a get of an
\* id created and neither updated nor deleted since answers 200 with that id
\* and the create payload's isbn, title and director, whatever was done to
\* other ids in between.
C2_GetAfterCreate ==
    \A w \in Workers :
        /\ CreateDone(w) =>
              /\ resp[w].status = 201
              /\ resp[w].body.id = uuids
              /\ Fields(resp[w].body) = Fields(req[w].movie)
              /\ resp[w].body.id \in DOMAIN movies
              /\ movies[resp[w].body.id] = resp[w].body
        /\ (GetDone(w) /\ req[w].id \in DOMAIN asCreated) =>
              /\ resp[w].status = 200
              /\ resp[w].body.id = req[w].id
              /\ Fields(resp[w].body) = Fields(asCreated[req[w].id])

\* C2 witness: a get of a created id served after a delete or an update of
\* another id.
C2_Witness ==
    \E w \in Workers :
        /\ GetDone(w)
        /\ req[w].id \in DOMAIN asCreated
        /\ \E k \in DOMAIN SeedMovies :
              k \notin DOMAIN movies \/ movies[k] # SeedMovies[k]

\* The step in which worker w's delete_movie_by_id acts on the map.
DeleteStep(w) ==
    pc[w] = "body" /\ req[w].op = "delete_movie_by_id" /\ pc'[w] # pc[w]

\* C3: a delete of a present id answers 204, removes that entry and leaves
\* every other entry as it was; a delete of an absent id answers 404 and
\* leaves the map as it was; and a get of an id that a delete removed
\* answers 404 ever after.
C3_Delete ==
    /\ [][\A w \in Workers : DeleteStep(w) =>
            IF req[w].id \in DOMAIN movies
            THEN /\ resp'[w] = Finish(204)
                 /\ DOMAIN movies' = DOMAIN movies \ {req[w].id}
                 /\ \A k \in DOMAIN movies' : movies'[k] = movies[k]
            ELSE /\ resp'[w] = Finish(404)
                 /\ movies' = movies]_vars
    /\ [](\A w \in Workers :
            (GetDone(w) /\ req[w].id \in deleted) => resp[w] = Finish(404))

\* C3 witness: a get of an id that a delete removed has been served, in a run
\* that also created a record.
C3_Witness ==
    \E w \in Workers : GetDone(w) /\ req[w].id \in deleted /\ Len(created) > 0

\* The step in which worker w's update_movie_by_id finds its id absent.
UpdateAbsentStep(w) ==
    /\ pc[w] = "body"
    /\ req[w].op = "update_movie_by_id"
    /\ req[w].id \notin DOMAIN movies
    /\ pc'[w] # pc[w]

\* C4: an update of an absent id answers 404 and leaves the map as it was:
\* get_movies would return the same records before and after, and no entry
\* exists under that id.
C4_UpdateAbsent ==
    [][\A w \in Workers : UpdateAbsentStep(w) =>
            /\ resp'[w] = Finish(404)
            /\ pc'[w] = "ret"
            /\ movies' = movies
            /\ Values(movies') = Values(movies)
            /\ req[w].id \notin DOMAIN movies']_vars

\* C4 witness: an update of the id of a deleted record (absent again) has
\* been answered 404.
C4_Witness ==
    \E w \in Workers :
        UpdateDone(w) /\ resp[w].status = 404 /\ req[w].id \in deleted

\* C5: an update of a present id answers 200 with the updated record, whose
\* isbn, title and director are the payload's and whose id is unchanged, and
\* every other entry of the map is as it was.
C5_UpdatePresent ==
    \A w \in Workers : (UpdateDone(w) /\ resp[w].status # 404) =>
        /\ resp[w].status = 200
        /\ req[w].id \in DOMAIN movies
        /\ resp[w].body = movies[req[w].id]
        /\ Fields(movies[req[w].id]) = Fields(req[w].movie)
        /\ DOMAIN movies = DOMAIN expected
        /\ movies[req[w].id].id = expected[req[w].id].id
        /\ \A k \in DOMAIN movies \ {req[w].id} : movies[k] = expected[k]

\* C5 witness: an update of a created record, with another record that an
\* earlier update has changed, has been answered 200.
C5_Witness ==
    \E w \in Workers :
        /\ UpdateDone(w)
        /\ resp[w].status = 200
        /\ req[w].id \in DOMAIN movies
        /\ movies[req[w].id].id = req[w].id
        /\ \E k \in DOMAIN movies \ {req[w].id} :
              Fields(movies[k]) \in Bodies /\ Fields(movies[k]) # Fields(req[w].movie)

\* C6: the ids returned by create_movie over a run are pairwise distinct,
\* those of records deleted in between included: no later create returns an
\* id an earlier create returned.
C6_CreatedIdsDistinct ==
    \A i, j \in 1..Len(created) : i # j => created[i].id # created[j].id

\* C6 witness: a second create has been served after the record of the first
\* was deleted.
C6_Witness ==
    /\ Len(created) >= 2
    /\ created[1].id \in deleted
    /\ created[2].id \in DOMAIN movies

\* C7: while no delete has removed anything, every record a create returned
\* is in the map under its id (equal to the returned record unless an update
\* has changed it since), is in every get_movies response, and the returned
\* ids are pairwise distinct; this for creates in flight together as for
\* creates one after the other.
C7_ConcurrentCreates ==
    nDeleted = 0 =>
        /\ \A i \in 1..Len(created) :
              /\ created[i].id \in DOMAIN movies
              /\ movies[created[i].id].id = created[i].id
              /\ created[i].id \in DOMAIN asCreated => movies[created[i].id] = created[i]
              /\ \A w \in Workers : ListDone(w) =>
                    \E r \in DOMAIN resp[w].body : r.id = created[i].id
        /\ \A i, j \in 1..Len(created) : i # j => created[i].id # created[j].id
        /\ Cardinality(DOMAIN movies) = Cardinality(DOMAIN SeedMovies) + Len(created)

\* C7 witness: two creates were in flight together, both have been served,
\* and no delete has run.
C7_Witness ==
    \E w \in Workers :
        /\ CreateDone(w)
        /\ "create" \in overlap[w]
        /\ Len(created) = 2
        /\ nDeleted = 0

\* The step in which worker w's create_movie acts on the map.
CreateStep(w) ==
    pc[w] = "body" /\ req[w].op = "create_movie" /\ pc'[w] # pc[w]

\* C8: a create adds exactly one entry, under a key that was neither a key
\* nor the id of any record before; the new record's id is that key and is
\* the id returned; and every entry that was in the map is still there
\* unchanged, also when the payload's id is the key or the id of one of them.
C8_CreateIgnoresPayloadId ==
    [][\A w \in Workers : CreateStep(w) =>
            /\ Cardinality(DOMAIN movies') = Cardinality(DOMAIN movies) + 1
            /\ \A k \in DOMAIN movies : k \in DOMAIN movies' /\ movies'[k] = movies[k]
            /\ \A k \in DOMAIN movies' \ DOMAIN movies :
                  /\ movies'[k].id = k
                  /\ resp'[w].body.id = k
                  /\ \A j \in DOMAIN movies : movies[j].id # k]_vars

\* C8 witness: creates have been served whose payloads carried the key of a
\* record in the map and the id field of a record in the map.
C8_Witness ==
    \E w \in Workers :
        /\ CreateDone(w)
        /\ Len(created) = 2
        /\ req[w].movie.id \in DOMAIN movies
        /\ \E k \in DOMAIN movies : movies[k].id # req[w].movie.id /\ movies[k].id \in PayloadIds

\* Records that some create, update or main wrote as a whole.
WholeFields == Bodies \cup {Seed1, Seed2}

\* C9: every record that get_movie_by_id or get_movies returns is a whole
\* record of the sequential history, its isbn, title and director all from
\* one write, never part from before and part from after an update; this
\* also for a read dispatched while an update was between two field writes.
C9_NoPartialRead ==
    \A w \in Workers :
        /\ (GetDone(w) /\ resp[w].status = 200) =>
              /\ Fields(resp[w].body) \in WholeFields
              /\ \E k \in DOMAIN expected : expected[k] = resp[w].body
        /\ ListDone(w) =>
              \A r \in DOMAIN resp[w].body :
                  /\ Fields(r) \in WholeFields
                  /\ \E k \in DOMAIN expected : expected[k] = r

\* C9 witness: a read that waited for the lock while the map held a record
\* with only part of an update applied has been served, and returns the
\* updated record.
C9_Witness ==
    \E w \in Workers :
        /\ "partial" \in overlap[w]
        /\ \/ GetDone(w) /\ resp[w].status = 200 /\ Fields(resp[w].body) \in Bodies
           \/ ListDone(w) /\ \E r \in DOMAIN resp[w].body : Fields(r) \in Bodies

\* Some step other than the dispatch of a new request.
Progress == \E w \in Workers : lock_unwrap(w) \/ Serve(w)

\* C10: under fair scheduling every handler waiting in data.lock() gets the
\* lock, every handler in flight builds its response and returns, and while
\* a handler is in flight some handler can take a step (no deadlock).
C10_NoIndefiniteBlocking ==
    /\ \A w \in Workers : (pc[w] = "lock") ~> (pc[w] = "body" /\ lock = w)
    /\ \A w \in Workers : (pc[w] # "idle") ~> (pc[w] = "idle")
    /\ [](\A w \in Workers : pc[w] = "ret" => resp[w] # NoResp)
    /\ []((\E w \in Workers : pc[w] # "idle") => ENABLED <<Progress>>_vars)

\* C10 witness: a handler dispatched while the other worker held the lock in
\* the middle of an update has acquired the lock and built its response,
\* and the other worker is waiting for the lock in its turn.
C10_Witness ==
    \E w, v \in Workers :
        /\ pc[w] = "ret"
        /\ "partial" \in overlap[w]
        /\ lock = w
        /\ pc[v] = "lock"

\* C11: in every reachable state, the seeded initial one included, no two
\* entries of the map hold records with the same id field.
C11_IdFieldsUnique ==
    \A j, k \in DOMAIN movies : j # k => movies[j].id # movies[k].id

\* C11 witness: the map holds a seed record and a created record, and a
\* request whose payload carried the seed record's id has been served on the
\* created one.
C11_Witness ==
    \E w \in Workers :
        /\ pc[w] = "ret"
        /\ req[w].op \in {"create_movie", "update_movie_by_id"}
        /\ resp[w].status \in {200, 201}
        /\ \E k \in DOMAIN movies : k # resp[w].body.id /\ movies[k].id = req[w].movie.id
        /\ Len(created) > 0

\* C12: the id field of a record never changes while the record is in the
\* map: every step leaves the id of every entry it keeps as it was, an
\* update whose payload carries another id included.
C12_IdImmutable ==
    [][\A k \in DOMAIN movies \cap DOMAIN movies' : movies'[k].id = movies[k].id]_vars

\* C12 witness: an update whose payload carried an id other than the
\* record's has been answered 200.
C12_Witness ==
    \E w \in Workers :
        /\ UpdateDone(w)
        /\ resp[w].status = 200
        /\ req[w].movie.id # movies[req[w].id].id
        /\ Fields(movies[req[w].id]) = Fields(req[w].movie)

\* C13 as stated: in every reachable state, the initial one included, every
\* record is stored under the key equal to its own id field, so that the id
\* get_movies shows for a record is a key of the map and addresses it.
C13_KeyIsIdField ==
    \A k \in DOMAIN movies : movies[k].id = k /\ movies[k].id \in DOMAIN movies

\* Worker w is between data.lock() and the return of its handler: the span
\* in which the handler reads or writes the map and builds its response.
InCritical(w) == pc[w] \in {"body", "title", "director", "ret"}

Readers == {"get_movies", "get_movie_by_id"}

\* C14: at most one handler is between its data.lock() and its return, that
\* handler is the holder of the lock, and only a step of the holder changes
\* the map or builds a response; so no two readers, and no reader and
\* writer, are in the map together.
C14_MutualExclusion ==
    /\ [](Cardinality({ w \in Workers : InCritical(w) }) <= 1)
    /\ [](\A w \in Workers : InCritical(w) => lock = w)
    /\ [][\A w \in Workers :
            (movies' # movies \/ (resp'[w] # resp[w] /\ resp'[w] # NoResp)) =>
                \E h \in Workers : lock = h /\ InCritical(h) /\ pc'[h] # pc[h]]_vars

\* C14 witness: a reader holds the lock with its response built while
\* another reader waits in data.lock().
C14_Witness ==
    \E w, v \in Workers :
        /\ pc[w] = "ret" /\ req[w].op \in Readers /\ lock = w
        /\ pc[v] = "lock" /\ req[v].op \in Readers

\* C15: the lock is held only by a handler between its data.lock() and its
\* return; a handler that returns, whatever its status (200, 201, 204 or
\* 404), leaves the lock free; and with no handler in progress the lock is
\* free.
C15_LockReleasedOnReturn ==
    /\ [](\A w \in Workers : lock = w => InCritical(w))
    /\ []((\A w \in Workers : pc[w] = "idle") => lock = NoWorker)
    /\ [][\A w \in Workers :
            (pc[w] = "ret" /\ pc'[w] = "idle") => (lock = w /\ lock' = NoWorker)]_vars

\* C15 witness: a handler holds the lock with a 404 built, about to return,
\* while the other worker waits for the lock.
C15_Witness ==
    \E w, v \in Workers :
        /\ pc[w] = "ret" /\ resp[w].status = 404 /\ lock = w
        /\ req[w].op \in {"get_movie_by_id", "delete_movie_by_id"}
        /\ pc[v] = "lock"

\* One operation run alone on a plain map m: the map it leaves and the
\* response it gives; newid is the id a create is given.
SeqServe(m, r, newid) ==
    LET present == r.id \in DOMAIN m
        made == [id |-> newid, isbn |-> r.movie.isbn, title |-> r.movie.title,
                 director |-> r.movie.director]
        changed == [id |-> m[r.id].id, isbn |-> r.movie.isbn,
                    title |-> r.movie.title, director |-> r.movie.director]
        all == [x \in { m[k] : k \in DOMAIN m } |->
                   Cardinality({ k \in DOMAIN m : m[k] = x })]
    IN  CASE r.op = "get_movies" ->
                [map |-> m, resp |-> [status |-> 200, body |-> all]]
          [] r.op = "get_movie_by_id" ->
                [map |-> m,
                 resp |-> IF present THEN [status |-> 200, body |-> m[r.id]]
                                     ELSE [status |-> 404, body |-> <<>>]]
          [] r.op = "create_movie" ->
                [map |-> (newid :> made) @@ m,
                 resp |-> [status |-> 201, body |-> made]]
          [] r.op = "update_movie_by_id" ->
                IF present
                THEN [map |-> (r.id :> changed) @@ m,
                      resp |-> [status |-> 200, body |-> changed]]
                ELSE [map |-> m, resp |-> [status |-> 404, body |-> <<>>]]
          [] r.op = "delete_movie_by_id" ->
                IF present
                THEN [map |-> [k \in DOMAIN m \ {r.id} |-> m[k]],
                      resp |-> [status |-> 204, body |-> <<>>]]
                ELSE [map |-> m, resp |-> [status |-> 404, body |-> <<>>]]

\* The step in which worker w's handler finishes its work on the map and
\* has its response.
Completes(w) == pc[w] \in {"body", "director"} /\ pc'[w] = "ret"

\* C16: the handlers behave as one sequential map served in the order of
\* lock acquisition: each handler's response, and the map it leaves, are
\* those of running its operation alone on the map left by the handlers
\* that held the lock before it; and whenever the lock is free the map is
\* that sequential map.
C16_Sequential ==
    /\ [][\A w \in Workers : Completes(w) =>
            LET r == SeqServe(expected, req[w], uuids + 1)
            IN  /\ resp'[w] = r.resp
                /\ movies' = r.map
                /\ expected' = r.map]_vars
    /\ [](lock = NoWorker => movies = expected)

\* C16 witness: a delete or a create dispatched while the other worker was
\* in the middle of an update has been served after it, and the other
\* worker has a new request waiting.
C16_Witness ==
    \E w, v \in Workers :
        /\ pc[w] = "ret"
        /\ req[w].op \in {"delete_movie_by_id", "create_movie"}
        /\ resp[w].status \in {201, 204}
        /\ "partial" \in overlap[w]
        /\ pc[v] = "lock"

\* The step in which worker w's get_movies or get_movie_by_id runs.
ReadStep(w) == pc[w] = "body" /\ req[w].op \in Readers /\ pc'[w] # pc[w]

\* C17: get_movies and get_movie_by_id leave the map as it was, keys and
\* records, for ids present and absent alike; get_movie_by_id answers 200
\* with the record stored under the path id exactly when that id is a key of
\* the map, and 404 with no body otherwise.
C17_ReadOnly ==
    /\ [][\A w \in Workers : ReadStep(w) =>
            /\ movies' = movies
            /\ DOMAIN movies' = DOMAIN movies
            /\ req[w].op = "get_movie_by_id" =>
                  /\ (resp'[w].status = 200) <=> (req[w].id \in DOMAIN movies)
                  /\ (resp'[w].status = 404) <=> (req[w].id \notin DOMAIN movies)
                  /\ req[w].id \in DOMAIN movies => resp'[w].body = movies[req[w].id]
                  /\ req[w].id \notin DOMAIN movies => resp'[w].body = <<>>]_vars
    /\ [](\A w \in Workers : ListDone(w) => resp[w].status = 200)

\* C17 witness: a get of an id that get_movies shows as a record's id field,
\* but that is no key of the map, has been answered 404.
C17_Witness ==
    \E w \in Workers :
        /\ GetDone(w)
        /\ resp[w].status = 404
        /\ \E k \in DOMAIN movies : movies[k].id = req[w].id

\* The step in which worker w's data.lock() comes back with the lock
\* poisoned.
PoisonedLockStep(w) == pc[w] = "lock" /\ poisoned /\ pc'[w] # pc[w]

\* C18 as stated: a handler whose data.lock() finds the lock poisoned goes
\* on to return a response with a 5xx status, it does not panic, and it
\* leaves the map as it was.
C18_PoisonedLockIs500 ==
    [][\A w \in Workers : PoisonedLockStep(w) =>
            /\ pc'[w] = "ret"
            /\ resp'[w].status \in 500..599
            /\ movies' = movies]_vars

=============================================================================
